---- MODULE Spec2Model ----
(***************************************************************************)
(* GitHub Actions Manager: the workflow sync script (sync-workflows.ts)    *)
(* and the secret distribution script (set-secrets.ts), modelled as one    *)
(* sequential process per run that talks to the GitHub REST API.  Every    *)
(* await of the code (a remote call, a local file read, a directory        *)
(* listing) is one step; between two steps another actor may change the    *)
(* remote store.                                                           *)
(***************************************************************************)
EXTENDS Integers, Sequences, FiniteSets, TLC

(* ------------------------------ bounds -------------------------------- *)

\* Longest repository list of a configuration.
MaxRepos == 2

\* Most disturbances in one behaviour: failures injected (remote calls
\* answered with an error the store's state does not explain, local reads
\* that fail) plus changes other actors make to the remote store.
MaxDisturbances == 1

(* ---------------------- text and transport encoding ------------------- *)

\* A byte is 0..255, a string a sequence of code points, a base64 text a
\* sequence of sextets 0..63 with 64 for the padding character.

\* Number of continuation bytes the lead byte b0 announces (0: no lead byte).
Utf8Needed(b0) ==
    IF b0 >= 194 /\ b0 <= 223 THEN 1
    ELSE IF b0 >= 224 /\ b0 <= 239 THEN 2
    ELSE IF b0 >= 240 /\ b0 <= 244 THEN 3
    ELSE 0

\* Range of the first continuation byte after lead byte b0.
Utf8Lower(b0) == IF b0 = 224 THEN 160 ELSE IF b0 = 240 THEN 144 ELSE 128
Utf8Upper(b0) == IF b0 = 237 THEN 159 ELSE IF b0 = 244 THEN 143 ELSE 191

\* How many of the `need` bytes after position i continue the sequence.
RECURSIVE Utf8Run(_, _, _, _)
Utf8Run(b, i, j, need) ==
    IF j > need \/ i + j > Len(b) THEN j - 1
    ELSE LET c  == b[i + j]
             lo == IF j = 1 THEN Utf8Lower(b[i]) ELSE 128
             hi == IF j = 1 THEN Utf8Upper(b[i]) ELSE 191
         IN  IF c >= lo /\ c <= hi THEN Utf8Run(b, i, j + 1, need) ELSE j - 1

\* The code point of the complete sequence of 1 + need bytes at position i.
Utf8CodePoint(b, i, need) ==
    IF need = 1 THEN ((b[i] % 32) * 64) + (b[i + 1] % 64)
    ELSE IF need = 2
         THEN ((b[i] % 16) * 4096) + ((b[i + 1] % 64) * 64) + (b[i + 2] % 64)
    ELSE ((b[i] % 8) * 262144) + ((b[i + 1] % 64) * 4096)
         + ((b[i + 2] % 64) * 64) + (b[i + 3] % 64)

\* Decoding replaces every ill-formed sequence (its maximal subpart) by
\* U+FFFD, as Buffer.toString('utf8') and fs.readFile(_, 'utf8') do.
RECURSIVE Utf8DecodeFrom(_, _)
Utf8DecodeFrom(b, i) ==
    IF i > Len(b) THEN << >>
    ELSE IF b[i] < 128 THEN << b[i] >> \o Utf8DecodeFrom(b, i + 1)
    ELSE LET need == Utf8Needed(b[i])
             run  == Utf8Run(b, i, 1, need)
         IN  IF need > 0 /\ run = need
             THEN << Utf8CodePoint(b, i, need) >> \o Utf8DecodeFrom(b, i + 1 + need)
             ELSE << 65533 >> \o Utf8DecodeFrom(b, i + 1 + run)

Utf8Decode(b) == Utf8DecodeFrom(b, 1)

\* Buffer.from(string): the UTF-8 bytes of a string.
RECURSIVE Utf8Encode(_)
Utf8Encode(s) ==
    IF Len(s) = 0 THEN << >>
    ELSE LET c == Head(s)
             h == IF c < 128 THEN << c >>
                  ELSE IF c < 2048 THEN << 192 + (c \div 64), 128 + (c % 64) >>
                  ELSE IF c < 65536
                       THEN << 224 + (c \div 4096), 128 + ((c \div 64) % 64), 128 + (c % 64) >>
                  ELSE << 240 + (c \div 262144), 128 + ((c \div 4096) % 64),
                          128 + ((c \div 64) % 64), 128 + (c % 64) >>
         IN  h \o Utf8Encode(Tail(s))

RECURSIVE Base64Encode(_)
Base64Encode(b) ==
    IF Len(b) = 0 THEN << >>
    ELSE IF Len(b) = 1 THEN << b[1] \div 4, (b[1] % 4) * 16, 64, 64 >>
    ELSE IF Len(b) = 2
         THEN << b[1] \div 4, ((b[1] % 4) * 16) + (b[2] \div 16), (b[2] % 16) * 4, 64 >>
    ELSE << b[1] \div 4, ((b[1] % 4) * 16) + (b[2] \div 16),
            ((b[2] % 16) * 4) + (b[3] \div 64), b[3] % 64 >>
         \o Base64Encode(SubSeq(b, 4, Len(b)))

RECURSIVE Base64Decode(_)
Base64Decode(t) ==
    IF Len(t) < 4 THEN << >>
    ELSE LET b1 == << (t[1] * 4) + (t[2] \div 16) >>
             b2 == IF t[3] = 64 THEN << >> ELSE << ((t[2] % 16) * 16) + (t[3] \div 4) >>
             b3 == IF t[3] = 64 \/ t[4] = 64 THEN << >>
                   ELSE << ((t[3] % 4) * 64) + t[4] >>
         IN  b1 \o b2 \o b3 \o Base64Decode(SubSeq(t, 5, Len(t)))

\* encodeBase64 of sync-workflows.ts: Buffer.from(content).toString('base64').
encodeBase64(content) == Base64Encode(Utf8Encode(content))

\* Buffer.from(existing.content, 'base64').toString('utf8') of syncFile.
\* The comparison made on the content as transferred, without decoding it.
DecodeExistingRaw(b64) == b64

DecodeExisting(b64) == Utf8Decode(Base64Decode(b64))

(* ------------------------------ inputs -------------------------------- *)

WorkflowIds == {"ci", "rel"}

\* Entries of config/repositories.yaml: a repository is its position in the
\* list; "" stands for a key the entry leaves out.
RepoKinds ==
    { [runsOn |-> "self-hosted", workflows |-> << "ci" >>,        branch |-> ""],
      [runsOn |-> "",            workflows |-> << "ci", "rel" >>, branch |-> "dev"],
      [runsOn |-> "self-hosted", workflows |-> << >>,             branch |-> ""] }

\* config.repositories: lists of at most MaxRepos entries, no two alike.
Configs ==
    { c \in UNION { [1..n -> RepoKinds] : n \in 0..MaxRepos } :
        \A i, j \in DOMAIN c : c[i] = c[j] => i = j }

\* The templates directory: which templates/<id>.yml exist, whether
\* templates/.github/commands exists, and the files under it.
LocalLayouts ==
    { [templates |-> {"ci", "rel"}, commandsDir |-> TRUE,  commands |-> << "cmd" >>],
      [templates |-> {"ci"},        commandsDir |-> FALSE, commands |-> << >>] }

\* The bytes of the local files: "a\n", U+FFFD, and "a".
LocalBytes(name) ==
    IF name = "ci" THEN << 97, 10 >>
    ELSE IF name = "rel" THEN << 239, 191, 189 >>
    ELSE << 97 >>

\* fs.readFile(path, 'utf8').
ReadLocal(name) == Utf8Decode(LocalBytes(name))

\* `.github/workflows/${workflowName}.yml`.
TargetPath(workflowName) ==
    IF workflowName = "ci" THEN ".github/workflows/ci.yml"
    ELSE ".github/workflows/rel.yml"

\* path.relative(templates, commandFile).
RelativePath(commandFile) == ".github/commands/cmd.md"

Paths == { TargetPath(w) : w \in WorkflowIds } \cup { RelativePath("cmd") }

\* The branch key of the entry is not looked at.
BranchOfDefault(repoConfig) == "main"

\* repoConfig.branch || 'main'.
BranchOf(repoConfig) == IF repoConfig.branch = "" THEN "main" ELSE repoConfig.branch

Branches == {"main", "dev"}

Environments ==
    { [token |-> TRUE,  secret |-> TRUE,  configReadable |-> TRUE],
      [token |-> FALSE, secret |-> TRUE,  configReadable |-> TRUE],
      [token |-> TRUE,  secret |-> FALSE, configReadable |-> TRUE],
      [token |-> TRUE,  secret |-> TRUE,  configReadable |-> FALSE] }

\* process.env.GEMINI_API_KEY, and values as the secret store sees them:
\* box names the public key a value is sealed under, "" when it is not sealed.
Plain(text) == [box |-> "", text |-> text]
GEMINI_API_KEY == Plain("api-key")

(* --------------------------- the remote store ------------------------- *)

\* What a path may hold when the run first touches it.
RemoteContents == { << 97, 10 >>, << 239, 191 >> }

Unobserved == [st |-> "unobserved", bytes |-> << >>]
Absent     == [st |-> "absent",     bytes |-> << >>]
Present(bytes) == [st |-> "present", bytes |-> bytes]

FileKeys == (1..MaxRepos) \X Branches \X Paths

\* The state of a path: chosen by the environment when first touched.
Possible(f) ==
    IF f.st = "unobserved" THEN {Absent} \cup { Present(b) : b \in RemoteContents }
    ELSE {f}

VariableValues == {"self-hosted", "ubuntu-latest"}

UnobservedVar == [st |-> "unobserved", value |-> ""]
AbsentVar     == [st |-> "absent",     value |-> ""]
PresentVar(v) == [st |-> "present",    value |-> v]

PossibleVar(v) ==
    IF v.st = "unobserved" THEN {AbsentVar} \cup { PresentVar(x) : x \in VariableValues }
    ELSE {v}

KeyPairs == { [key_id |-> "id1", key |-> "pk1"], [key_id |-> "id2", key |-> "pk2"] }

NoKey == [key_id |-> "", key |-> ""]

PossibleKey(k) == IF k = NoKey THEN KeyPairs ELSE {k}

NoSecret == [st |-> "unobserved", value |-> Plain(""), key_id |-> ""]

\* Whether the secret exists, and what it holds (sealed under an older key).
PossibleSecret(x) ==
    IF x.st = "unobserved"
    THEN { [st |-> "absent", value |-> Plain(""), key_id |-> ""],
           [st |-> "present", value |-> [box |-> "pk0", text |-> "old"], key_id |-> "id0"] }
    ELSE {x}

\* The version token of a stored file: its blob id, one per content.
ShaOf(bytes) == [blob |-> bytes]
NoSha == [blob |-> << -1 >>]

(* ------------------------------ responses ----------------------------- *)

\* A response, or the Error githubRequest (or fs) throws: its message is
\* `GitHub API error: ${status} ${text}`; text404 says that the text holds
\* "404", enoent that the message holds "ENOENT".  fault marks an injected
\* failure.
Ok(content, sha, key) ==
    [ok |-> TRUE, fault |-> FALSE, status |-> 200, text404 |-> FALSE, enoent |-> FALSE,
     content |-> content, sha |-> sha, key |-> key]

Err(status, text404, enoent, fault) ==
    [ok |-> FALSE, fault |-> fault, status |-> status, text404 |-> text404,
     enoent |-> enoent, content |-> << >>, sha |-> NoSha, key |-> NoKey]

NoResponse == Err(0, FALSE, FALSE, FALSE)

\* error.message.includes('404')
MessageIncludes404(e) == e.status = 404 \/ e.text404

\* error.message.includes('ENOENT')
MessageIncludesENOENT(e) == e.enoent

(* ------------------ the store's answers (REST contract) --------------- *)

\* GET /repos/{owner}/{repo}/contents/{path}?ref={branch}
GetContent(f) ==
    IF f.st = "present" THEN Ok(Base64Encode(f.bytes), ShaOf(f.bytes), NoKey)
    ELSE Err(404, FALSE, FALSE, FALSE)

\* PUT /repos/{owner}/{repo}/contents/{path}: with a sha an update of that
\* revision (409 when it is not the current one), without one a create (422
\* when the path exists).
PutContentAccepted(f, body) ==
    IF body.hasSha THEN f.st = "present" /\ body.sha = ShaOf(f.bytes)
    ELSE f.st = "absent"

PutContent(f, body) ==
    IF PutContentAccepted(f, body) THEN Ok(<< >>, NoSha, NoKey)
    ELSE Err(IF body.hasSha THEN 409 ELSE 422, FALSE, FALSE, FALSE)

\* GET /repos/{owner}/{repo}/actions/variables/{name}
GetVariable(v) ==
    IF v.st = "present" THEN Ok(<< >>, NoSha, NoKey) ELSE Err(404, FALSE, FALSE, FALSE)

\* PATCH /repos/{owner}/{repo}/actions/variables/{name}
PatchVariable(v) ==
    IF v.st = "present" THEN Ok(<< >>, NoSha, NoKey) ELSE Err(404, FALSE, FALSE, FALSE)

\* POST /repos/{owner}/{repo}/actions/variables
PostVariable(v) ==
    IF v.st = "absent" THEN Ok(<< >>, NoSha, NoKey) ELSE Err(409, FALSE, FALSE, FALSE)

\* PUT /repos/{owner}/{repo}/actions/secrets/{name}: an upsert, refused (422)
\* when key_id is not the repository's current key.
PutSecret(k, body) ==
    IF body.key_id = k.key_id THEN Ok(<< >>, NoSha, NoKey)
    ELSE Err(422, FALSE, FALSE, FALSE)

\* Failures the store's state does not explain: a 404 (no access), a 500,
\* and a 500 whose text holds "404".
InjectedErrors ==
    { Err(404, FALSE, FALSE, TRUE), Err(500, FALSE, FALSE, TRUE),
      Err(500, TRUE, FALSE, TRUE) }

\* Failures of a local read: EACCES, and ENOENT (the file is gone).
LocalErrors == { Err(0, FALSE, FALSE, TRUE), Err(0, FALSE, TRUE, TRUE) }

(* ------------------------------- state -------------------------------- *)

VARIABLES
    script,       \* "sync" (sync-workflows.ts) or "secrets" (set-secrets.ts)
    env,          \* process.env and the readability of the configuration
    config,       \* config.repositories
    layout,       \* the templates directory
    files,        \* remote: contents by (repository, branch, path)
    variables,    \* remote: the RUNS_ON variable of each repository
    secrets,      \* remote: the GEMINI_API_KEY secret of each repository
    pubkeys,      \* remote: the public key of each repository
    run,          \* "first" or "second" run of the script
    pc,           \* the await the process is at
    idx,          \* loop positions: repository, workflow, command file
    commandFiles, \* result of getFilesRecursively
    cur,          \* arguments and locals of the reconcile call in progress or just ended
    calls,        \* requests issued by the reconcile call in progress or just ended
    exitCode,     \* -1 while running
    lastLine,     \* the outcome line the last step printed
    log,          \* outcome lines printed in this run
    started,      \* (repository, workflow, path) syncFile was called for in this run
    visits,       \* repositories whose header was printed in this run
    completed,    \* the completion line was printed in this run
    netUsed,      \* a remote call was issued in this run
    wrote,        \* a content write was issued in this run
    changed,      \* a syncFile call of this run did not end "unchanged"
    failure,      \* what failed in this run: "read" (a read of a file), "remote"
                  \* (another remote call), "local" (a local read)
    prev,         \* what the first run ended with
    faults,       \* failures injected so far
    externals     \* changes by other actors so far

inputs  == << script, env, config, layout >>
remote  == << files, variables, secrets, pubkeys >>
control == << run, pc, idx, commandFiles, exitCode >>
call    == << cur, calls >>
report  == << lastLine, log, started, visits, completed, failure >>
usage   == << netUsed, wrote >>
budget  == << faults, externals >>
vars    == << inputs, remote, control, call, report, usage, changed, prev, budget >>

NoLine == [repo |-> 0, subject |-> "", tag |-> ""]
Line(repo, subject, tag) == [repo |-> repo, subject |-> subject, tag |-> tag]

NoCall ==
    [kind |-> "none", path |-> "", branch |-> "", content |-> << >>, wf |-> "",
     pre |-> Unobserved, existing |-> NoResponse, value |-> Plain(""),
     other |-> Unobserved]

FirstIdx == [repo |-> 1, wf |-> 1, aux |-> 1]

NoPrev == [ended |-> FALSE, wrote |-> FALSE, failure |-> {}]

Init ==
    /\ script \in {"sync", "secrets"}
    /\ env \in Environments
    /\ config \in Configs
    /\ layout \in (IF script = "sync" THEN LocalLayouts
                   ELSE { [templates |-> {"ci", "rel"}, commandsDir |-> FALSE,
                           commands |-> << >>] })
    /\ files = [k \in FileKeys |-> Unobserved]
    /\ variables = [r \in 1..MaxRepos |-> UnobservedVar]
    /\ secrets = [r \in 1..MaxRepos |-> NoSecret]
    /\ pubkeys = [r \in 1..MaxRepos |-> NoKey]
    /\ run = "first"
    /\ pc = "boot"
    /\ idx = FirstIdx
    /\ commandFiles = << >>
    /\ cur = NoCall
    /\ calls = << >>
    /\ exitCode = -1
    /\ lastLine = NoLine
    /\ log = {}
    /\ started = {}
    /\ visits = << >>
    /\ completed = FALSE
    /\ netUsed = FALSE
    /\ wrote = FALSE
    /\ changed = FALSE
    /\ failure = {}
    /\ prev = NoPrev
    /\ faults = 0
    /\ externals = 0

\* Whether the environment may disturb the run once more.
Disturbable == faults + externals < MaxDisturbances

\* The answers a remote call may get: the store's, or an injected failure.
Answers(natural) ==
    {natural} \cup (IF Disturbable THEN InjectedErrors ELSE {})

\* The outcomes of a local read.
LocalAnswers(natural) ==
    {natural} \cup (IF Disturbable THEN LocalErrors ELSE {})

\* A request as the store receives it.
Request(op, kind, repo, branch, path, hasSha, sha, content, value, key_id, resp) ==
    [op |-> op, kind |-> kind, repo |-> repo, branch |-> branch, path |-> path,
     hasSha |-> hasSha, sha |-> sha, content |-> content, value |-> value,
     key_id |-> key_id, ok |-> resp.ok, status |-> resp.status, fault |-> resp.fault,
     returned |-> [sha |-> resp.sha, key |-> resp.key]]

repoConfig == config[idx.repo]

workflowName == repoConfig.workflows[idx.wf]

(* ----------------------- fragments of the steps ----------------------- *)

\* The log keeps of an outcome line whether it reports a success or a failure.
Reported(tag) == IF tag = "failed" THEN "failed" ELSE "ok"

\* Where control goes next, and the outcome line printed on the way.
Flow(p, i, line, cause) ==
    /\ pc' = p
    /\ idx' = i
    /\ lastLine' = line
    /\ log' = IF line = NoLine THEN log
              ELSE log \cup { Line(line.repo, line.subject, Reported(line.tag)) }
    /\ failure' = IF cause = "" THEN failure ELSE failure \cup {cause}
    /\ changed' = (\/ changed
                   \/ line.tag \in {"created", "updated"}
                   \/ (pc \in {"fileGet", "filePut", "fileCreate"} /\ cause # ""))

\* Book-keeping of one remote call.
Issue(req, resp, isWrite) ==
    /\ calls' = Append(calls, req)
    /\ netUsed' = TRUE
    /\ wrote' = (wrote \/ isWrite)
    /\ faults' = faults + (IF resp.fault THEN 1 ELSE 0)

\* Positions of the loops of main, as << pc, idx >>: the next repository
\* (line 225), the workflows of the repository or none (lines 242-248), the
\* next workflow (line 248), the next command file (line 262).
NextRepo == << "repo", [repo |-> idx.repo + 1, wf |-> 1, aux |-> 1] >>

Workflows ==
    IF Len(repoConfig.workflows) = 0 THEN NextRepo
    ELSE << "workflow", [idx EXCEPT !.wf = 1, !.aux = 1] >>

NextWorkflow ==
    IF idx.wf + 1 > Len(repoConfig.workflows) THEN NextRepo
    ELSE << "workflow", [idx EXCEPT !.wf = @ + 1, !.aux = 1] >>

Commands(list, n) ==
    IF n > Len(list) THEN NextWorkflow ELSE << "auxRead", [idx EXCEPT !.aux = n] >>

\* syncFile returned: the caller goes on with the command files.
syncFileReturns(tag) ==
    LET to == IF cur.kind = "tmpl" THEN << "auxList", idx >>
              ELSE Commands(commandFiles, idx.aux + 1)
    IN  Flow(to[1], to[2], Line(idx.repo, cur.path, tag), "")

\* A catch block that gives up: the error ends the process.
CatchWorkflowFatal(e, inCommands, cause) ==
    Flow("exit", idx, Line(idx.repo, workflowName, "failed"), cause)

\* The catch blocks of main around a workflow (lines 267-276): an error
\* thrown inside the command-file block whose message holds "ENOENT" is
\* dropped, any other is printed against the workflow's name.
\* cause is "" for the one error that is none: the commands directory does
\* not exist.
CatchWorkflow(e, inCommands, cause) ==
    IF inCommands /\ MessageIncludesENOENT(e)
    THEN Flow(NextWorkflow[1], NextWorkflow[2], NoLine, cause)
    ELSE Flow(NextWorkflow[1], NextWorkflow[2],
              Line(idx.repo, workflowName, "failed"), cause)

\* An error of syncFile that is swallowed: the call counts as done.
syncFileSwallows(e, cause) == syncFileReturns("created")

\* syncFile threw.
syncFileThrows(e, cause) == CatchWorkflow(e, cur.kind = "aux", cause)

\* The call of syncFile(owner, repo, filePath, content, branch).
syncFileCall(kind, filePath, content) ==
    /\ cur' = [NoCall EXCEPT !.kind = kind, !.path = filePath, !.content = content,
                             !.branch = BranchOf(repoConfig), !.wf = workflowName]
    /\ calls' = << >>
    /\ started' = started \cup { << idx.repo, idx.wf, filePath >> }

fileKey == << idx.repo, cur.branch, cur.path >>

(* ------------------------------ syncFile ------------------------------ *)

\* Lines 109-118: the read, and the comparison with the desired content.
SyncFileGet ==
    /\ pc = "fileGet"
    /\ \E f \in Possible(files[fileKey]) : \E resp \in Answers(GetContent(f)) :
        /\ files' = [files EXCEPT ![fileKey] = f]
        /\ Issue(Request("GET", "contents", idx.repo, cur.branch, cur.path, FALSE,
                         NoSha, << >>, Plain(""), "", resp), resp, FALSE)
        /\ cur' = [cur EXCEPT !.pre = f, !.existing = resp]
        /\ IF resp.ok
           THEN IF DecodeExisting(resp.content) = cur.content
                THEN syncFileReturns("unchanged")
                ELSE Flow("filePut", idx, NoLine, "")
           ELSE IF MessageIncludes404(resp)
                THEN Flow("fileCreate", idx, NoLine, IF resp.fault THEN "read" ELSE "")
                ELSE syncFileThrows(resp, "read")
    /\ UNCHANGED << inputs, variables, secrets, pubkeys, run, commandFiles, exitCode,
                    started, visits, completed, prev, externals >>

\* The body of the update request (lines 123-128).
UpdateBody ==
    [content |-> encodeBase64(cur.content), hasSha |-> TRUE, sha |-> cur.existing.sha]

\* A create request that reuses the update's body.
CreateBodyWithSha ==
    [content |-> encodeBase64(cur.content), hasSha |-> TRUE, sha |-> cur.existing.sha]

\* The body of the create request (lines 137-141).
CreateBody ==
    [content |-> encodeBase64(cur.content), hasSha |-> FALSE, sha |-> NoSha]

\* A content write: the store takes it or answers with an error.
PutStep(body) ==
    \E f \in Possible(files[fileKey]) : \E resp \in Answers(PutContent(f, body)) :
        /\ files' = [files EXCEPT ![fileKey] =
                        IF resp.ok THEN Present(Base64Decode(body.content)) ELSE f]
        /\ Issue(Request("PUT", "contents", idx.repo, cur.branch, cur.path, body.hasSha,
                         body.sha, body.content, Plain(""), "", resp), resp, TRUE)
        /\ IF resp.ok
           THEN syncFileReturns(IF body.hasSha THEN "updated" ELSE "created")
           ELSE IF body.hasSha /\ MessageIncludes404(resp)
                THEN Flow("fileCreate", idx, NoLine, "remote")
                ELSE syncFileThrows(resp, "remote")

\* Lines 121-131: the update, inside the try block of the read.
SyncFileUpdate ==
    /\ pc = "filePut"
    /\ PutStep(UpdateBody)
    /\ UNCHANGED << inputs, variables, secrets, pubkeys, run, commandFiles, exitCode,
                    cur, started, visits, completed, prev, externals >>

\* Lines 133-144: the create, in the catch block.
SyncFileCreate ==
    /\ pc = "fileCreate"
    /\ PutStep(CreateBody)
    /\ UNCHANGED << inputs, variables, secrets, pubkeys, run, commandFiles, exitCode,
                    cur, started, visits, completed, prev, externals >>

(* ----------------------------- setVariable ---------------------------- *)

\* main's lines 234-239 around setVariable.
setVariableReturns ==
    Flow(Workflows[1], Workflows[2], Line(idx.repo, "RUNS_ON", "set"), "")
\* A failure of the variable that is printed as a success.
setVariableThrowsQuiet(e) ==
    Flow(Workflows[1], Workflows[2], Line(idx.repo, "RUNS_ON", "set"), "remote")

\* A failure of the variable that makes main skip the repository.
setVariableThrowsSkips(e) ==
    Flow(NextRepo[1], NextRepo[2], Line(idx.repo, "RUNS_ON", "failed"), "remote")

setVariableThrows(e) ==
    Flow(Workflows[1], Workflows[2], Line(idx.repo, "RUNS_ON", "failed"), "remote")

VariableRequest(op, kind, value, resp) ==
    Request(op, kind, idx.repo, "", "RUNS_ON", FALSE, NoSha, << >>, value, "", resp)

\* Line 164: the read of the variable.
SetVariableGet ==
    /\ pc = "varGet"
    /\ \E v \in PossibleVar(variables[idx.repo]) : \E resp \in Answers(GetVariable(v)) :
        /\ variables' = [variables EXCEPT ![idx.repo] = v]
        /\ Issue(VariableRequest("GET", "variable", Plain(""), resp), resp, FALSE)
        /\ IF resp.ok THEN Flow("varPatch", idx, NoLine, "")
           ELSE IF MessageIncludes404(resp)
                THEN Flow("varPost", idx, NoLine, IF resp.fault THEN "remote" ELSE "")
           ELSE setVariableThrows(resp)
    /\ UNCHANGED << inputs, files, secrets, pubkeys, run, commandFiles, exitCode, cur,
                    started, visits, completed, prev, externals >>

\* Lines 167-173: the update, inside the try block of the read.
SetVariablePatch ==
    /\ pc = "varPatch"
    /\ \E v \in PossibleVar(variables[idx.repo]) : \E resp \in Answers(PatchVariable(v)) :
        /\ variables' = [variables EXCEPT ![idx.repo] =
                            IF resp.ok THEN PresentVar(cur.value.text) ELSE v]
        /\ Issue(VariableRequest("PATCH", "variable", cur.value, resp), resp, FALSE)
        /\ IF resp.ok THEN setVariableReturns
           ELSE IF MessageIncludes404(resp) THEN Flow("varPost", idx, NoLine, "remote")
           ELSE setVariableThrows(resp)
    /\ UNCHANGED << inputs, files, secrets, pubkeys, run, commandFiles, exitCode, cur,
                    started, visits, completed, prev, externals >>

\* Lines 175-183: the create, in the catch block.
SetVariablePost ==
    /\ pc = "varPost"
    /\ \E v \in PossibleVar(variables[idx.repo]) : \E resp \in Answers(PostVariable(v)) :
        /\ variables' = [variables EXCEPT ![idx.repo] =
                            IF resp.ok THEN PresentVar(cur.value.text) ELSE v]
        /\ Issue(VariableRequest("POST", "variables", cur.value, resp), resp, FALSE)
        /\ IF resp.ok THEN setVariableReturns ELSE setVariableThrows(resp)
    /\ UNCHANGED << inputs, files, secrets, pubkeys, run, commandFiles, exitCode, cur,
                    started, visits, completed, prev, externals >>

(* ----------------------- main of sync-workflows.ts -------------------- *)

\* A start that does not look at the environment.
BootUnchecked ==
    /\ pc = "boot"
    /\ pc' = "config"
    /\ lastLine' = NoLine
    /\ UNCHANGED << inputs, remote, run, idx, commandFiles, exitCode, call, log, started,
                    visits, completed, failure, changed, usage, prev, budget >>

\* Lines 20-25 of sync-workflows.ts and 22-33 of set-secrets.ts.
Boot ==
    /\ pc = "boot"
    /\ IF ~env.token \/ (script = "secrets" /\ ~env.secret)
       THEN pc' = "exit" /\ exitCode' = 1
       ELSE pc' = "config" /\ exitCode' = exitCode
    /\ lastLine' = NoLine
    /\ UNCHANGED << inputs, remote, run, idx, commandFiles, call, log, started, visits,
                    completed, failure, changed, usage, prev, budget >>

\* Lines 215-222 (156-163): an unreadable configuration rejects main, which
\* exits with 1; an empty repository list returns.
LoadConfig ==
    /\ pc = "config"
    /\ IF ~env.configReadable THEN pc' = "exit" /\ exitCode' = 1
       ELSE IF Len(config) = 0 THEN pc' = "returned" /\ exitCode' = 0
       ELSE pc' = (IF script = "sync" THEN "repo" ELSE "secretRepo")
            /\ exitCode' = exitCode
    /\ lastLine' = NoLine
    /\ UNCHANGED << inputs, remote, run, idx, commandFiles, call, log, started, visits,
                    completed, failure, changed, usage, prev, budget >>

\* Line 280: the loop over the repositories is over.
SyncDone ==
    /\ pc = "repo"
    /\ idx.repo > Len(config)
    /\ pc' = "done"
    /\ exitCode' = 0
    /\ completed' = TRUE
    /\ lastLine' = NoLine
    /\ cur' = NoCall
    /\ calls' = << >>
    /\ UNCHANGED << inputs, remote, run, idx, commandFiles, log, started, visits,
                    failure, changed, usage, prev, budget >>

\* Lines 225-234: the header of a repository, and the call of setVariable
\* when runsOn is declared.
RepoStep ==
    /\ pc = "repo"
    /\ idx.repo <= Len(config)
    /\ visits' = Append(visits, idx.repo)
    /\ IF repoConfig.runsOn # ""
       THEN /\ cur' = [NoCall EXCEPT !.kind = "var", !.value = Plain(repoConfig.runsOn)]
            /\ calls' = << >>
            /\ Flow("varGet", idx, NoLine, "")
       ELSE /\ cur' = NoCall
            /\ calls' = << >>
            /\ Flow(Workflows[1], Workflows[2], NoLine, "")
    /\ UNCHANGED << inputs, remote, run, commandFiles, exitCode, started, completed,
                    usage, prev, budget >>

\* fs.readFile of a template: ENOENT when the file does not exist.
ReadTemplate(name) ==
    IF name \in layout.templates THEN Ok(ReadLocal(name), NoSha, NoKey)
    ELSE Err(0, FALSE, TRUE, FALSE)

\* Lines 248-255: the template is read and syncFile called for it.
WorkflowStep ==
    /\ pc = "workflow"
    /\ \E r \in LocalAnswers(ReadTemplate(workflowName)) :
        /\ faults' = faults + (IF r.fault THEN 1 ELSE 0)
        /\ IF r.ok
           THEN /\ syncFileCall("tmpl", TargetPath(workflowName), r.content)
                /\ Flow("fileGet", idx, NoLine, "")
           ELSE /\ cur' = NoCall
                /\ calls' = << >>
                /\ UNCHANGED started
                /\ CatchWorkflow(r, FALSE, "local")
    /\ UNCHANGED << inputs, remote, run, commandFiles, exitCode, visits, completed,
                    usage, prev, externals >>

\* getFilesRecursively(commandsDir): ENOENT when the directory does not exist.
getFilesRecursively ==
    IF layout.commandsDir THEN Ok(<< >>, NoSha, NoKey) ELSE Err(0, FALSE, TRUE, FALSE)

\* Lines 258-260: the command files are listed.  An ENOENT of the listing is
\* the absence of the directory, which the layout decides.
CommandsList ==
    /\ pc = "auxList"
    /\ \E r \in { x \in LocalAnswers(getFilesRecursively) : x.fault => ~x.enoent } :
        /\ faults' = faults + (IF r.fault THEN 1 ELSE 0)
        /\ commandFiles' = IF r.ok THEN layout.commands ELSE << >>
        /\ IF r.ok
           THEN Flow(Commands(layout.commands, 1)[1], Commands(layout.commands, 1)[2],
                     NoLine, "")
           ELSE CatchWorkflow(r, TRUE, IF r.fault THEN "local" ELSE "")
    /\ cur' = NoCall
    /\ calls' = << >>
    /\ UNCHANGED << inputs, remote, run, exitCode, started, visits, completed,
                    usage, prev, externals >>

\* Lines 262-266: a command file is read and syncFile called for it.
CommandStep ==
    /\ pc = "auxRead"
    /\ \E r \in LocalAnswers(Ok(ReadLocal(commandFiles[idx.aux]), NoSha, NoKey)) :
        /\ faults' = faults + (IF r.fault THEN 1 ELSE 0)
        /\ IF r.ok
           THEN /\ syncFileCall("aux", RelativePath(commandFiles[idx.aux]), r.content)
                /\ Flow("fileGet", idx, NoLine, "")
           ELSE /\ cur' = NoCall
                /\ calls' = << >>
                /\ UNCHANGED started
                /\ CatchWorkflow(r, TRUE, "local")
    /\ UNCHANGED << inputs, remote, run, commandFiles, exitCode, visits, completed,
                    usage, prev, externals >>

(* -------------------------- set-secrets.ts ---------------------------- *)

\* encryptSecret: the value sealed under publicKey (lines 101-113).
encryptSecret(publicKey, secretValue) == [box |-> publicKey, text |-> secretValue.text]

\* A secret write that sends the value as it is.
SecretBodyPlain ==
    [encrypted_value |-> cur.value, key_id |-> cur.existing.key.key_id]

\* The body of the secret write (lines 142-145).
SecretBody ==
    [encrypted_value |-> encryptSecret(cur.existing.key.key, cur.value),
     key_id |-> cur.existing.key.key_id]

\* main's lines 173-178 around setSecret.
setSecretReturns ==
    Flow("secretRepo", NextRepo[2], Line(idx.repo, "GEMINI_API_KEY", "set"), "")
\* A failure of the secret that ends the loop over the repositories.
setSecretThrowsFatal(e) ==
    Flow("exit", idx, Line(idx.repo, "GEMINI_API_KEY", "failed"), "remote")

setSecretThrows(e) ==
    Flow("secretRepo", NextRepo[2], Line(idx.repo, "GEMINI_API_KEY", "failed"), "remote")

\* Line 181: the loop over the repositories is over.
SecretsDone ==
    /\ pc = "secretRepo"
    /\ idx.repo > Len(config)
    /\ pc' = "done"
    /\ exitCode' = 0
    /\ completed' = TRUE
    /\ lastLine' = NoLine
    /\ cur' = NoCall
    /\ calls' = << >>
    /\ UNCHANGED << inputs, remote, run, idx, commandFiles, log, started, visits,
                    failure, changed, usage, prev, budget >>

\* Lines 166-173: the header of a repository and the call of setSecret.
SecretRepoStep ==
    /\ pc = "secretRepo"
    /\ idx.repo <= Len(config)
    /\ visits' = Append(visits, idx.repo)
    /\ cur' = [NoCall EXCEPT !.kind = "secret", !.value = GEMINI_API_KEY]
    /\ calls' = << >>
    /\ Flow("keyGet", idx, NoLine, "")
    /\ UNCHANGED << inputs, remote, run, commandFiles, exitCode, started, completed,
                    usage, prev, budget >>

\* getPublicKey (lines 118-122, called at line 134).
GetPublicKey ==
    /\ pc = "keyGet"
    /\ \E k \in PossibleKey(pubkeys[idx.repo]) : \E resp \in Answers(Ok(<< >>, NoSha, k)) :
        /\ pubkeys' = [pubkeys EXCEPT ![idx.repo] = k]
        /\ Issue(Request("GET", "public-key", idx.repo, "", "", FALSE, NoSha, << >>,
                         Plain(""), "", resp), resp, FALSE)
        /\ cur' = [cur EXCEPT !.existing = resp]
        /\ IF resp.ok THEN Flow("secretPut", idx, NoLine, "")
           ELSE setSecretThrows(resp)
    /\ UNCHANGED << inputs, files, variables, secrets, run, commandFiles, exitCode,
                    started, visits, completed, prev, externals >>

\* Lines 137-146: the value is sealed and written.
SetSecretPut ==
    /\ pc = "secretPut"
    /\ \E x \in PossibleSecret(secrets[idx.repo]) :
       \E resp \in Answers(PutSecret(pubkeys[idx.repo], SecretBody)) :
        /\ secrets' = [secrets EXCEPT ![idx.repo] =
                          IF resp.ok
                          THEN [st |-> "present", value |-> SecretBody.encrypted_value,
                                key_id |-> SecretBody.key_id]
                          ELSE x]
        /\ cur' = [cur EXCEPT !.pre = [st |-> x.st, bytes |-> << >>]]
        /\ Issue(Request("PUT", "secret", idx.repo, "", "GEMINI_API_KEY", FALSE, NoSha,
                         << >>, SecretBody.encrypted_value, SecretBody.key_id, resp),
                 resp, FALSE)
        /\ IF resp.ok THEN setSecretReturns ELSE setSecretThrows(resp)
    /\ UNCHANGED << inputs, files, variables, pubkeys, run, commandFiles, exitCode,
                    started, visits, completed, prev, externals >>

(* ---------------------------- environment ----------------------------- *)

\* Another actor writes the path a syncFile call has read and not yet written.
ExternalWrite ==
    /\ pc \in {"filePut", "fileCreate"}
    /\ Disturbable
    /\ \E b \in RemoteContents :
        /\ files[fileKey] # Present(b)
        /\ files' = [files EXCEPT ![fileKey] = Present(b)]
        /\ cur' = [cur EXCEPT !.other = Present(b)]
    /\ externals' = externals + 1
    /\ UNCHANGED << inputs, variables, secrets, pubkeys, control, calls, report, usage,
                    changed, prev, faults >>

\* The repository's public key is rotated between its fetch and the write.
ExternalRotate ==
    /\ pc = "secretPut"
    /\ Disturbable
    /\ \E k \in KeyPairs :
        /\ k # pubkeys[idx.repo]
        /\ pubkeys' = [pubkeys EXCEPT ![idx.repo] = k]
    /\ externals' = externals + 1
    /\ UNCHANGED << inputs, files, variables, secrets, control, call, report, usage,
                    changed, prev, faults >>

\* The sync script is run again with the same configuration and templates,
\* after a run that printed no failure line and in which no other actor wrote.
Rerun ==
    /\ script = "sync"
    /\ run = "first"
    /\ pc = "done"
    /\ \A l \in log : l.tag # "failed"
    /\ externals = 0
    /\ run' = "second"
    /\ pc' = "boot"
    /\ idx' = FirstIdx
    /\ commandFiles' = << >>
    /\ cur' = NoCall
    /\ calls' = << >>
    /\ exitCode' = -1
    /\ lastLine' = NoLine
    /\ log' = {}
    /\ started' = {}
    /\ visits' = << >>
    /\ completed' = FALSE
    /\ netUsed' = FALSE
    /\ wrote' = FALSE
    /\ changed' = FALSE
    /\ failure' = {}
    /\ prev' = [ended |-> TRUE, wrote |-> wrote, failure |-> failure]
    /\ UNCHANGED << inputs, remote, budget >>

Next ==
    \/ Boot
    \/ LoadConfig
    \/ RepoStep
    \/ SetVariableGet
    \/ SetVariablePatch
    \/ SetVariablePost
    \/ WorkflowStep
    \/ SyncFileGet
    \/ SyncFileUpdate
    \/ SyncFileCreate
    \/ CommandsList
    \/ CommandStep
    \/ SyncDone
    \/ SecretRepoStep
    \/ GetPublicKey
    \/ SetSecretPut
    \/ SecretsDone
    \/ ExternalWrite
    \/ ExternalRotate
    \/ Rerun

Spec == Init /\ [][Next]_vars

(* ------------------------- what the claims speak of ------------------- *)

\* A syncFile call is in progress or has just ended.
InFile == cur.kind \in {"tmpl", "aux"}

\* The syncFile call has returned or thrown; the caller has not yet gone on.
FileEnded == InFile /\ pc \notin {"fileGet", "filePut", "fileCreate"}

\* The setVariable call has returned or thrown.
VarEnded == cur.kind = "var" /\ pc \notin {"varGet", "varPatch", "varPost"}

\* The setSecret call has returned or thrown.
SecretEnded == cur.kind = "secret" /\ pc = "secretRepo"

\* The run of the sync script is over, its loop having come to its end.
SyncEnded == script = "sync" /\ pc = "done"

Count(op) == Cardinality({ i \in DOMAIN calls : calls[i].op = op })

\* The file artifacts of a workflow of a repository: its template and every
\* command file.
ArtifactsOf(r, w) ==
    { << r, w, TargetPath(config[r].workflows[w]) >> } \cup
    { << r, w, RelativePath(layout.commands[c]) >> : c \in DOMAIN layout.commands }

\* The file artifacts of the run.
DesiredArtifacts ==
    UNION { UNION { ArtifactsOf(r, w) : w \in DOMAIN config[r].workflows }
            : r \in DOMAIN config }

(* --------------------------------- C1 --------------------------------- *)

\* Every file artifact of the run was reconciled and found unchanged.
AllUnchanged == ~changed /\ DesiredArtifacts \subseteq started

C2_TokenFromRead ==
    InFile =>
        \A i \in DOMAIN calls :
            calls[i].op = "PUT" =>
                /\ calls[i].hasSha =>
                    /\ i > 1
                    /\ calls[1].op = "GET" /\ calls[1].ok
                    /\ calls[1].repo = calls[i].repo
                    /\ calls[1].branch = calls[i].branch
                    /\ calls[1].path = calls[i].path
                    /\ calls[1].returned.sha # NoSha
                    /\ calls[i].sha = calls[1].returned.sha
                /\ ~calls[1].ok => ~calls[i].hasSha

\* An update with the token read has been accepted by the store.
C2_Witness ==
    /\ FileEnded
    /\ Len(calls) = 2
    /\ calls[1].ok
    /\ calls[2].op = "PUT" /\ calls[2].hasSha /\ calls[2].ok
    /\ calls[2].sha = ShaOf(cur.pre.bytes)
    /\ lastLine.tag = "updated"

(* --------------------------------- C3 --------------------------------- *)

\* Every call of the syncFile call was answered as the store's state demands:
\* with success, or with not-found by the read of an absent path.
AnsweredAsExpected ==
    \A i \in DOMAIN calls :
        /\ ~calls[i].fault
        /\ calls[i].ok \/ (i = 1 /\ calls[i].status = 404)

\* C3: when every call is answered as expected, syncFile issues no write and
\* reports unchanged if the remote content is the desired one, issues one
\* update with the token read and the desired content and reports updated if
\* it differs, and issues one create without token and reports created if the
\* path is absent.
C3_Decision ==
    (FileEnded /\ AnsweredAsExpected) =>
        IF cur.pre.st = "absent"
        THEN /\ Count("PUT") = 1
             /\ ~calls[2].hasSha
             /\ Base64Decode(calls[2].content) = Utf8Encode(cur.content)
             /\ lastLine.tag = "created"
        ELSE IF cur.pre.bytes = Utf8Encode(cur.content)
        THEN Count("PUT") = 0 /\ lastLine.tag = "unchanged"
        ELSE /\ Count("PUT") = 1
             /\ calls[2].hasSha /\ calls[2].sha = ShaOf(cur.pre.bytes)
             /\ Base64Decode(calls[2].content) = Utf8Encode(cur.content)
             /\ lastLine.tag = "updated"

(* --------------------------------- C4 --------------------------------- *)

\* The artifact has an outcome line: one about its path, or the failure line
\* of its workflow.
ReportedOn(a) ==
    \E l \in log :
        /\ l.repo = a[1]
        /\ \/ l.subject = a[3]
           \/ l.subject = config[a[1]].workflows[a[2]] /\ l.tag = "failed"

\* C4: when nothing fails in a run but reads of files that throw another
\* error than not-found, every file artifact of the run is reconciled and
\* reported (the failing ones as failed).
C4_Isolation ==
    (SyncEnded /\ externals = 0 /\ failure \subseteq {"read"}) =>
        \A a \in DesiredArtifacts : a \in started /\ ReportedOn(a)

(* --------------------------------- C5 --------------------------------- *)

\* C5: a setVariable call whose read finds the variable issues one PATCH and
\* no POST, whatever the PATCH's outcome; one whose read reports not-found
\* issues one POST and no PATCH; the write carries the declared value.
C5_CreateVsUpdate ==
    VarEnded =>
        /\ calls[1].op = "GET"
        /\ calls[1].ok => (Count("PATCH") = 1 /\ Count("POST") = 0)
        /\ (~calls[1].ok /\ calls[1].status = 404) =>
               (Count("POST") = 1 /\ Count("PATCH") = 0)
        /\ \A i \in DOMAIN calls :
               calls[i].op \in {"PATCH", "POST"} => calls[i].value = cur.value

(* --------------------------------- C6 --------------------------------- *)

\* C6: a setSecret call whose public-key fetch succeeds issues exactly one
\* secret write and no read of the secret, and the write carries the value
\* sealed under the key fetched in that call, with that key's identifier,
\* never the plain value.
C6_SealedUpsert ==
    (SecretEnded /\ calls[1].ok) =>
        /\ Len(calls) = 2
        /\ calls[1].op = "GET" /\ calls[1].kind = "public-key"
        /\ calls[2].op = "PUT" /\ calls[2].kind = "secret"
        /\ calls[2].repo = calls[1].repo
        /\ calls[2].key_id = calls[1].returned.key.key_id
        /\ calls[2].value.box = calls[1].returned.key.key
        /\ calls[2].value.box # ""
        /\ calls[2].value.text = GEMINI_API_KEY.text
        /\ calls[2].value # GEMINI_API_KEY

\* A secret that existed has been overwritten.
C6_Witness ==
    /\ SecretEnded
    /\ Len(calls) = 2 /\ calls[2].ok
    /\ cur.pre.st = "present"
    /\ secrets[idx.repo - 1].value = encryptSecret(pubkeys[idx.repo - 1].key, GEMINI_API_KEY)

(* --------------------------------- C7 --------------------------------- *)

\* The store holds what the configuration and the templates ask for.
Converged ==
    \A r \in DOMAIN config :
        /\ \A w \in DOMAIN config[r].workflows :
               config[r].workflows[w] \in layout.templates =>
                   files[<< r, BranchOf(config[r]), TargetPath(config[r].workflows[w]) >>]
                       = Present(LocalBytes(config[r].workflows[w]))
        /\ (config[r].workflows # << >>) =>
               \A c \in DOMAIN layout.commands :
                   files[<< r, BranchOf(config[r]), RelativePath(layout.commands[c]) >>]
                       = Present(LocalBytes(layout.commands[c]))
        /\ (config[r].runsOn # "") => variables[r] = PresentVar(config[r].runsOn)

\* C7: after a sync run in which no remote call failed (but for not-found on
\* reads) and no other actor wrote, the store holds the desired content of
\* every desired file and the declared value of the variable.  Stated here
\* for the runs in which no local read failed either, the templates all
\* being there: the claim says no less of them.
C7_Convergence ==
    (SyncEnded /\ externals = 0 /\ failure = {}) => Converged

(* --------------------------------- C8 --------------------------------- *)

\* The process has ended: after the loop, by process.exit(1), or by the
\* early return of main.
Ended == pc \in {"done", "exit", "returned"}

\* A step of the script itself.
ProgramStep ==
    \/ Boot \/ LoadConfig \/ RepoStep \/ SetVariableGet \/ SetVariablePatch
    \/ SetVariablePost \/ WorkflowStep \/ SyncFileGet \/ SyncFileUpdate
    \/ SyncFileCreate \/ CommandsList \/ CommandStep \/ SyncDone
    \/ SecretRepoStep \/ GetPublicKey \/ SetSecretPut \/ SecretsDone

\* How far the run has come: every step of the script takes it further, and
\* it is bounded by the configuration.
Stage ==
    CASE pc = "boot" -> 0
      [] pc = "config" -> 1
      [] pc \in {"repo", "secretRepo"} -> 2
      [] pc \in {"varGet", "keyGet"} -> 3
      [] pc \in {"varPatch", "secretPut"} -> 4
      [] pc = "varPost" -> 5
      [] pc = "workflow" -> 6
      [] pc = "fileGet" -> IF cur.kind = "tmpl" THEN 7 ELSE 12
      [] pc = "filePut" -> IF cur.kind = "tmpl" THEN 8 ELSE 13
      [] pc = "fileCreate" -> IF cur.kind = "tmpl" THEN 9 ELSE 14
      [] pc = "auxList" -> 10
      [] pc = "auxRead" -> 11
      [] OTHER -> 15

Progress == ((((idx.repo * 8) + idx.wf) * 8) + idx.aux) * 16 + Stage

\* The repositories were taken once each, in the order of the list.
InOrder == visits = [i \in 1..Len(visits) |-> i] /\ Len(visits) <= Len(config)

\* The run ended as a completed run does.
Completed ==
    /\ pc = "done" /\ exitCode = 0 /\ completed
    /\ Len(visits) = Len(config)

\* C8 (as stated): with the credential and a readable configuration, the run
\* ends only after every repository was taken once in order, with the
\* completion line and exit status 0.
C8_AlwaysCompletes ==
    (env.token /\ env.configReadable) => (InOrder /\ (Ended => Completed))

RunnableEnv ==
    /\ env.token /\ env.configReadable
    /\ script = "secrets" => env.secret
    /\ Len(config) > 0

C8_State ==
    RunnableEnv =>
        /\ InOrder
        /\ Ended => Completed
        /\ ~Ended => ENABLED ProgramStep

\* C8 (amended): with the credential, in the secrets script the secret value,
\* and a readable configuration that lists at least one repository, whatever
\* fails of the remote calls and local reads, the run cannot stop before its
\* end, every step of it (any step but another actor's write and the start
\* of a second run) takes it further towards its end, and it ends with every
\* repository taken once in order, the completion line and exit status 0.
C8_CompletesWhenRunnable ==
    /\ [] C8_State
    /\ [][(RunnableEnv /\ run' = run /\ externals' = externals)
            => Progress' > Progress]_vars

\* A run has completed in which a local read and a remote call failed.
C8_Witness ==
    /\ RunnableEnv
    /\ Completed
    /\ Len(config) = 2
    /\ {"local", "remote"} \subseteq failure

(* --------------------------------- C9 --------------------------------- *)

\* A fatal condition: no GITHUB_TOKEN, in the secrets script no
\* GEMINI_API_KEY, or no readable configuration.
Fatal ==
    \/ ~env.token
    \/ script = "secrets" /\ ~env.secret
    \/ ~env.configReadable

\* C9: under a fatal condition the process issues no remote call, and exits
\* with status 1 from its start or from the load of the configuration.
C9_FatalBeforeNetwork ==
    Fatal =>
        /\ ~netUsed
        /\ calls = << >>
        /\ pc \in {"boot", "config", "exit"}
        /\ exitCode = (IF pc = "exit" THEN 1 ELSE -1)

\* The process has exited on an unreadable configuration.
C9_Witness ==
    /\ env.token /\ ~env.configReadable
    /\ pc = "exit" /\ exitCode = 1
    /\ Len(config) > 0

(* --------------------------------- C10 -------------------------------- *)

\* C10: whenever the content read differs from the desired content, be it in
\* a single trailing byte, syncFile goes on to an update write and never
\* reports unchanged.
C10_ByteEquality ==
    (InFile /\ Len(calls) >= 1 /\ calls[1].ok
        /\ cur.pre.bytes # Utf8Encode(cur.content)) =>
        /\ Len(calls) = 1 => pc = "filePut"
        /\ Len(calls) > 1 => (calls[2].op = "PUT" /\ calls[2].hasSha)
        /\ lastLine.tag # "unchanged"

(* --------------------------------- C11 -------------------------------- *)

\* The first call of the reconcile call was a read answered 404.
ReadNotFound ==
    /\ Len(calls) >= 1
    /\ calls[1].op = "GET" /\ ~calls[1].ok /\ calls[1].status = 404

\* C11: syncFile issues a create write (a PUT without version token) only
\* right after its read was answered with status 404, and setVariable a POST
\* only right after its GET was answered with status 404: no create follows
\* a read that failed otherwise, nor a failed update.
C11_CreateOnlyOnNotFound ==
    /\ InFile =>
           \A i \in DOMAIN calls :
               (calls[i].op = "PUT" /\ ~calls[i].hasSha) => (i = 2 /\ ReadNotFound)
    /\ cur.kind = "var" =>
           \A i \in DOMAIN calls :
               calls[i].op = "POST" => (i = 2 /\ ReadNotFound)

(* --------------------------------- C12 -------------------------------- *)

Reads == { i \in DOMAIN calls : calls[i].op = "GET" }
Writes == { i \in DOMAIN calls : calls[i].op \in {"PUT", "PATCH", "POST"} }

\* C12: a call of syncFile, setVariable or setSecret issues at most one read
\* request and at most one write request, whatever fails.
C12_NoRetries ==
    cur.kind \in {"tmpl", "aux", "var", "secret"} =>
        (Cardinality(Reads) <= 1 /\ Cardinality(Writes) <= 1)

(* --------------------------------- C13 -------------------------------- *)

\* The setting of the repository has an outcome line.
SettingReported(r, name) == \E l \in log : l.repo = r /\ l.subject = name

\* C13: at the end of a run every file artifact has an outcome line (about
\* its path, or the failure line of its workflow) and every declared setting
\* has one: nothing ends without a success and without a failure line.
C13_EveryFailureReported ==
    /\ SyncEnded =>
           /\ \A a \in DesiredArtifacts : ReportedOn(a)
           /\ \A r \in DOMAIN config :
                  config[r].runsOn # "" => SettingReported(r, "RUNS_ON")
    /\ (script = "secrets" /\ pc = "done") =>
           \A r \in DOMAIN config : SettingReported(r, "GEMINI_API_KEY")

(* --------------------------------- C14 -------------------------------- *)

\* The repository whose header was printed last.
LastVisit == visits[Len(visits)]

\* C14: the repositories are taken in order and every remote call is made
\* for the repository taken last; while the variable is reconciled no file
\* of that repository has been reconciled; syncFile is called for a command
\* file of a workflow only after it was called for the workflow's template;
\* and once the variable's reconciliation has ended, failed or not, main is
\* at the first workflow of the same repository.
C14_Ordering ==
    script = "sync" =>
        /\ InOrder
        /\ \A i \in DOMAIN calls : visits # << >> /\ calls[i].repo = LastVisit
        /\ \A a \in started : visits # << >> /\ a[1] <= LastVisit
        /\ cur.kind = "var" => \A a \in started : a[1] # LastVisit
        /\ \A a \in started :
               << a[1], a[2], TargetPath(config[a[1]].workflows[a[2]]) >> \in started
        /\ (VarEnded /\ config[LastVisit].workflows # << >>) =>
               (pc = "workflow" /\ idx.repo = LastVisit /\ idx.wf = 1)
        /\ (VarEnded /\ config[LastVisit].workflows = << >>) =>
               (pc = "repo" /\ idx.repo = LastVisit + 1)

\* A command file of the second repository is being reconciled after the
\* repository's variable failed.
C14_Witness ==
    /\ script = "sync"
    /\ cur.kind = "aux" /\ pc = "fileGet"
    /\ idx.repo = 2
    /\ Line(2, "RUNS_ON", "failed") \in log

(* --------------------------------- C15 -------------------------------- *)

\* The path of the syncFile call in the store.
CallKey == << calls[1].repo, cur.branch, cur.path >>

\* The read found the path absent, and another actor has written it since.
CreateRace == InFile /\ cur.pre.st = "absent" /\ cur.other.st = "present"

\* C15: when another actor creates the file between the read that reported
\* not found and the create write, the create is refused (by the store as a
\* conflict, status 422), the artifact is reported failed, no other write is
\* issued for it and the other actor's content stays in place.
C15_CreateRace ==
    (CreateRace /\ FileEnded) =>
        /\ Len(calls) = 2
        /\ calls[2].op = "PUT" /\ ~calls[2].hasSha /\ ~calls[2].ok
        /\ ~calls[2].fault => calls[2].status = 422
        /\ lastLine = Line(calls[1].repo, cur.wf, "failed")
        /\ files[CallKey] = cur.other

\* The store has refused the create after another actor's write.
C15_Witness ==
    /\ CreateRace /\ FileEnded
    /\ ~calls[1].fault
    /\ ~calls[2].fault /\ calls[2].status = 422
    /\ files[CallKey] = cur.other

(* --------------------------------- C16 -------------------------------- *)

\* C16: in the secrets script a failed fetch of the public key is followed
\* by no secret write for that repository, which is reported failed and
\* whose secret stays untouched; no failure ends the run: every repository
\* before the current one has its outcome line, the run ends with all of
\* them taken, and a repository reported as set holds the sealed value.
C16_SecretIsolation ==
    script = "secrets" =>
        /\ (SecretEnded /\ ~calls[1].ok) =>
               /\ Len(calls) = 1
               /\ lastLine = Line(calls[1].repo, "GEMINI_API_KEY", "failed")
               /\ secrets[calls[1].repo] = NoSecret
        /\ pc = "exit" => Fatal
        /\ pc \in {"secretRepo", "keyGet", "secretPut", "done"} =>
               \A r \in 1..(idx.repo - 1) : SettingReported(r, "GEMINI_API_KEY")
        /\ pc = "done" =>
               /\ Len(visits) = Len(config)
               /\ \A r \in DOMAIN config :
                      Line(r, "GEMINI_API_KEY", "ok") \in log =>
                          /\ secrets[r].st = "present"
                          /\ secrets[r].value.box # ""
                          /\ secrets[r].value.text = GEMINI_API_KEY.text

\* The first repository's key fetch failed and the second has its secret.
C16_Witness ==
    /\ script = "secrets" /\ pc = "done"
    /\ Line(1, "GEMINI_API_KEY", "failed") \in log
    /\ Line(2, "GEMINI_API_KEY", "ok") \in log
    /\ secrets[1] = NoSecret
    /\ secrets[2].st = "present"

(* --------------------------------- C17 -------------------------------- *)

\* The last request of the reconcile call.
LastCall == calls[Len(calls)]

\* C17: the line printed at the end of a reconcile call tells its outcome:
\* created (updated) only after the create (update) write was accepted as
\* the call's last request, unchanged only when no write was issued, the
\* success line of the variable or the secret only after its write was
\* accepted, and a failure line only when the last request failed, so that
\* no call gets a success line and a failure line.
C17_NoFalseSuccess ==
    /\ FileEnded =>
           /\ lastLine.tag = "created" =>
                  (LastCall.op = "PUT" /\ ~LastCall.hasSha /\ LastCall.ok)
           /\ lastLine.tag = "updated" =>
                  (LastCall.op = "PUT" /\ LastCall.hasSha /\ LastCall.ok)
           /\ lastLine.tag = "unchanged" => (Writes = {} /\ LastCall.ok)
           /\ lastLine.tag \in {"created", "updated", "unchanged"} =>
                  (lastLine.repo = LastCall.repo /\ lastLine.subject = cur.path)
           /\ lastLine.tag = "failed" => ~LastCall.ok
    /\ VarEnded =>
           /\ lastLine.tag = "set" =>
                  (LastCall.op \in {"PATCH", "POST"} /\ LastCall.ok)
           /\ lastLine.tag = "failed" => ~LastCall.ok
           /\ lastLine.tag \in {"set", "failed"}
    /\ SecretEnded =>
           /\ lastLine.tag = "set" =>
                  (LastCall.op = "PUT" /\ LastCall.kind = "secret" /\ LastCall.ok)
           /\ lastLine.tag = "failed" => ~LastCall.ok
           /\ lastLine.tag \in {"set", "failed"}

\* The variable was created after a read answered not found, and reported.
C17_Witness ==
    /\ VarEnded
    /\ lastLine.tag = "set"
    /\ Len(calls) = 2
    /\ calls[2].op = "POST" /\ calls[2].ok

(* --------------------------------- C18 -------------------------------- *)

\* The branch the entry of repository r names, main when it names none.
ConfiguredBranch(r) == IF config[r].branch = "" THEN "main" ELSE config[r].branch

\* The paths the run is to hold on repository r.
DesiredPaths(r) ==
    { TargetPath(config[r].workflows[w]) : w \in DOMAIN config[r].workflows } \cup
    (IF config[r].workflows = << >> THEN {}
     ELSE { RelativePath(layout.commands[c]) : c \in DOMAIN layout.commands })

\* The place k of the store is one the run may touch.
InFrame(k) ==
    /\ k[1] \in DOMAIN config
    /\ k[2] = ConfiguredBranch(k[1])
    /\ k[3] \in DesiredPaths(k[1])

C18_State ==
    script = "sync" =>
        /\ \A k \in FileKeys : files[k] # Unobserved => InFrame(k)
        /\ \A r \in 1..MaxRepos :
               variables[r] # UnobservedVar => (r \in DOMAIN config /\ config[r].runsOn # "")
        /\ \A r \in 1..MaxRepos : secrets[r] = NoSecret /\ pubkeys[r] = NoKey
        /\ \A i \in DOMAIN calls :
               /\ calls[i].op \in {"GET", "PUT", "PATCH", "POST"}
               /\ calls[i].kind = "contents" =>
                      InFrame(<< calls[i].repo, calls[i].branch, calls[i].path >>)
               /\ calls[i].kind \in {"variable", "variables"} => calls[i].path = "RUNS_ON"
               /\ calls[i].kind \in {"contents", "variable", "variables"}

\* C18: a sync run touches, of the remote store, only the desired paths on
\* the configured branch of the configured repositories and the RUNS_ON
\* variable of the repositories that declare it; every other file, branch,
\* repository, variable and secret stays as it was, and no file or variable
\* that exists ceases to exist.
C18_Frame ==
    /\ [] C18_State
    /\ [][script = "sync" =>
            /\ \A k \in FileKeys : files[k].st = "present" => files'[k].st = "present"
            /\ \A r \in 1..MaxRepos :
                   variables[r].st = "present" => variables'[r].st = "present"]_vars

\* A run on one repository with branch dev has written there, and nothing
\* of branch main or of another repository was touched.
C18_Witness ==
    /\ SyncEnded /\ wrote
    /\ Len(config) = 1 /\ config[1].branch = "dev"
    /\ \E k \in FileKeys : k[2] = "dev" /\ files[k].st = "present"
    /\ \A k \in FileKeys : (k[1] # 1 \/ k[2] = "main") => files[k] = Unobserved

====
